---- MODULE Spec2Model ----
(***************************************************************************)
(* Model of the single-line input widget of hkb_client                      *)
(* (src/hkb_client/src/components/input.rs) and of the tick loop that       *)
(* drives it (src/hkb_client/src/main.rs).                                  *)
(*                                                                          *)
(* Characters are one-character strings, the buffer is a sequence of them   *)
(* (ASCII only, so byte offsets and character offsets coincide).  Buffer    *)
(* positions are 0-based as in the source: position p is buffer[p + 1].     *)
(***************************************************************************)
EXTENDS Integers, Sequences, FiniteSets, TLC

\* ---------------------------------------------------------------- bounds
MaxLen == 3
MaxQueue == 1
MaxAreaWidth == 4
\* the 'a' binding is not pressed once cursor_offset has reached MaxCursor
MaxCursor == 3
\* longest sequence of key events of one tick compared in C19
MaxTick == 2
\* largest id the reminders table hands out
MaxId == 3
\* largest SimpleDate
MaxDate == 1
\* a view is not re-initialised once init has run MaxInits times on it
MaxInits == 2

\* origin of the Rect handed to render
AreaX == 0
AreaY == 0

\* width of cursor_offset and last_render_width (u16)
U16 == 65536

\* ------------------------------------------------------------ key events
NavChars == {"h", "l", "^", "$", "e", "b", "i", "I", "a", "A", " "}
\* characters the user types while the mode is Editing: one per class
TypedChars == {"a", " ", "$"}
KeyChars == NavChars \cup TypedChars
SpecialKeys == {"Left", "Right", "Backspace", "Esc"}
Keys == KeyChars \cup SpecialKeys
\* keys that arrive behind another key within one tick
BurstKeys == {"a", "Esc"}

IsChar(k) == k \in KeyChars

VARIABLES
    buffer,                 \* InputState.buffer
    focused,                \* InputState.focused
    cursor_offset,          \* InputState.cursor_offset
    visible_buffer_offset,  \* InputState.visible_buffer_offset
    last_render_width,      \* InputState.last_render_width
    editing,                \* app_state: the process-wide editing flag
    events,                 \* events queued since the last draw
    pc,                     \* position of the tick loop / of render
    consumed,               \* number of queued events update has consumed
    frame_text,             \* text handed to Paragraph::new in this draw
    frame_cursor,           \* argument of frame.set_cursor in this draw
    overflow_checks,        \* build profile: TRUE = arithmetic overflow panics
    fault,                  \* TRUE once the process has panicked
    reminders_table,        \* rows of the reminders table
    last_rowid,             \* largest id the table has ever handed out
    autoincrement,          \* schema: TRUE = the id column is AUTOINCREMENT
    db_result,              \* what the last service call returned
    current_view,           \* RemindersApp.current_view
    server_msg              \* argument of send_server_msg in the last render

input_vars == <<buffer, focused, cursor_offset, visible_buffer_offset,
                last_render_width, editing, events, pc, consumed, frame_text,
                frame_cursor, overflow_checks, fault>>

reminders_vars == <<reminders_table, last_rowid, autoincrement, db_result,
                    current_view, server_msg>>

vars == <<input_vars, reminders_vars>>

None == <<>>

Min(a, b) == IF a < b THEN a ELSE b

\* checked_sub(n).unwrap_or(0)
checked_sub_or_0(a, n) == IF a >= n THEN a - n ELSE 0

\* The widget and the mode as one value, so that the methods of Input are
\* operators from state to state.  panicked = TRUE: the method panicked.
Cur == [buffer |-> buffer,
        focused |-> focused,
        cursor_offset |-> cursor_offset,
        visible_buffer_offset |-> visible_buffer_offset,
        last_render_width |-> last_render_width,
        editing |-> editing,
        panicked |-> FALSE]

Panic(st) == [st EXCEPT !.panicked = TRUE]

\* value returned by an operator that panicked instead of returning a number
PANIC == -1

\* --------------------------------------------------------- Input methods

\* get_max_right_cursor_pos with the `- 1` forgotten
get_max_right_cursor_pos_no_minus_one(st) ==
    Min(Len(st.buffer), st.last_render_width) % U16

\* `(state.last_render_width - 1)` is a u16 subtraction: with width 0 it
\* panics when overflow checks are on and wraps to 65535 otherwise.
get_max_right_cursor_pos(st) ==
    IF st.last_render_width = 0 /\ overflow_checks
    THEN PANIC
    ELSE Min(Len(st.buffer), (st.last_render_width - 1) % U16) % U16

\* go_left that scrolls before it moves the cursor
go_left_scroll_first(st) ==
    IF st.visible_buffer_offset # 0
    THEN [st EXCEPT !.visible_buffer_offset = @ - 1]
    ELSE IF st.cursor_offset # 0
         THEN [st EXCEPT !.cursor_offset = @ - 1]
         ELSE st

go_left(st) ==
    IF st.cursor_offset # 0
    THEN [st EXCEPT !.cursor_offset = @ - 1]
    ELSE IF st.visible_buffer_offset # 0
         THEN [st EXCEPT !.visible_buffer_offset = @ - 1]
         ELSE st

go_right(st) ==
    LET visible_buffer_len == st.last_render_width + st.visible_buffer_offset
        max_right == get_max_right_cursor_pos(st)
    IN  IF max_right = PANIC
        THEN Panic(st)
        ELSE IF st.cursor_offset < max_right
             THEN [st EXCEPT !.cursor_offset = @ + 1]
             ELSE IF visible_buffer_len < Len(st.buffer)
                  THEN [st EXCEPT !.visible_buffer_offset = @ + 1]
                  ELSE st

\* go_far_left that forgets to reset the window
go_far_left_keeps_window(st) ==
    [st EXCEPT !.cursor_offset = 0]

go_far_left(st) ==
    [st EXCEPT !.visible_buffer_offset = 0, !.cursor_offset = 0]

\* go_far_right with `+=` in place of `=` for visible_buffer_offset
go_far_right_adds_window(st) ==
    LET max_right == get_max_right_cursor_pos(st)
    IN  IF max_right = PANIC
        THEN Panic(st)
        ELSE [st EXCEPT
                !.cursor_offset = max_right,
                !.visible_buffer_offset =
                    @ + checked_sub_or_0(Len(st.buffer), st.last_render_width)]

go_far_right(st) ==
    LET max_right == get_max_right_cursor_pos(st)
    IN  IF max_right = PANIC
        THEN Panic(st)
        ELSE [st EXCEPT
                !.cursor_offset = max_right,
                !.visible_buffer_offset =
                    checked_sub_or_0(Len(st.buffer), st.last_render_width)]

is_whitespace(c) == c = " "
is_ascii_punctuation(c) == c \in {"^", "$"}

get_char_class(pos, chars) ==
    IF pos >= Len(chars)
    THEN -1
    ELSE IF is_whitespace(chars[pos + 1])
         THEN 0
         ELSE IF is_ascii_punctuation(chars[pos + 1]) THEN 1 ELSE 2

get_buffer_update_offset(st) == st.visible_buffer_offset + st.cursor_offset

\* while get_char_class(current_pos) == class { current_pos += 1 }
RECURSIVE scan_forward(_, _, _)
scan_forward(pos, chars, class) ==
    IF get_char_class(pos, chars) = class
    THEN scan_forward(pos + 1, chars, class)
    ELSE pos

\* while get_char_class(current_pos) == class {
\*     current_pos = current_pos.checked_sub(1).unwrap_or(0);
\*     if current_pos == 0 { break; } }
RECURSIVE scan_backward(_, _, _)
scan_backward(pos, chars, class) ==
    IF get_char_class(pos, chars) = class
    THEN LET prev == checked_sub_or_0(pos, 1)
         IN  IF prev = 0 THEN 0 ELSE scan_backward(prev, chars, class)
    ELSE pos

\* position current_pos reaches in go_end_of_word (one past the class run)
end_of_word_scan(st) ==
    LET chars == st.buffer
        p1 == scan_forward(get_buffer_update_offset(st) + 1, chars, 0)
        char_class == get_char_class(p1, chars)
    IN  IF char_class # -1 THEN scan_forward(p1, chars, char_class) ELSE p1

go_end_of_word(st) ==
    LET current_pos == end_of_word_scan(st)
        max_right == get_max_right_cursor_pos(st)
    IN  IF max_right = PANIC
        THEN Panic(st)
        ELSE LET new_cursor ==
                     Min(checked_sub_or_0(current_pos, 1) % U16, max_right)
             IN  \* `max_right as usize - 1` underflows when max_right = 0:
                 \* a panic with overflow checks, usize::MAX without them
                 \* (and then the comparison is false)
                 IF max_right = 0
                 THEN IF overflow_checks
                      THEN Panic([st EXCEPT !.cursor_offset = new_cursor])
                      ELSE [st EXCEPT !.cursor_offset = new_cursor]
                 ELSE IF current_pos >= max_right - 1
                      THEN [st EXCEPT
                              !.cursor_offset = new_cursor,
                              !.visible_buffer_offset =
                                  current_pos - new_cursor - 1]
                      ELSE [st EXCEPT !.cursor_offset = new_cursor]

\* position current_pos reaches in go_back_word
back_word_scan(st) ==
    LET chars == st.buffer
        p0 == checked_sub_or_0(get_buffer_update_offset(st), 1)
        p1 == scan_backward(p0, chars, 0)
        char_class == get_char_class(p1, chars)
    IN  IF p1 # 0 /\ char_class # -1
        THEN scan_backward(p1, chars, char_class)
        ELSE p1

go_back_word(st) ==
    LET current_pos == back_word_scan(st)
    IN  IF st.visible_buffer_offset > current_pos
        THEN [st EXCEPT !.visible_buffer_offset = @ - current_pos,
                        !.cursor_offset = 0]
        ELSE [st EXCEPT !.cursor_offset =
                            (current_pos - st.visible_buffer_offset) % U16]

\* ------------------------------------------------------------ key router

\* update_on_not_editing taken for the Char arm of update: the character
\* is typed
update_on_not_editing_types(st, k) ==
    IF IsChar(k) /\ get_buffer_update_offset(st) <= Len(st.buffer)
    THEN LET offset == get_buffer_update_offset(st)
         IN  go_right([st EXCEPT
                         !.buffer = SubSeq(st.buffer, 1, offset) \o <<k>>
                                    \o SubSeq(st.buffer, offset + 1,
                                              Len(st.buffer))])
    ELSE st

\* One pass of the consume_key_event! body of update_on_not_editing, for the
\* queued key event k.  Only KeyCode::Char has an arm.
update_on_not_editing(st, k) ==
    IF ~IsChar(k)
    THEN st
    ELSE LET s1 == CASE k = "h" -> go_left(st)
                     [] k = "l" -> go_right(st)
                     [] k = "^" -> go_far_left(st)
                     [] k = "$" -> go_far_right(st)
                     [] k = "e" -> go_end_of_word(st)
                     [] k = "b" -> go_back_word(st)
                     [] OTHER -> st
         IN  IF s1.panicked \/ ~s1.focused
             THEN s1
             ELSE LET s2 == CASE k = "I" -> go_far_left(s1)
                              [] k = "a" -> [s1 EXCEPT !.cursor_offset = @ + 1]
                              [] k = "A" -> go_far_right(s1)
                              [] OTHER -> s1
                      should_edit == k \in {"i", "I", "a", "A"}
                  IN  IF s2.panicked
                      THEN s2
                      ELSE [s2 EXCEPT !.editing = should_edit]

\* insert_char with the character put after the one under the cursor
insert_char_after_cursor(st, c) ==
    LET offset == Min(get_buffer_update_offset(st) + 1, Len(st.buffer))
        len == Len(st.buffer)
    IN  go_right([st EXCEPT
                    !.buffer = SubSeq(st.buffer, 1, offset) \o <<c>>
                               \o SubSeq(st.buffer, offset + 1, len)])

\* KeyCode::Char(c) arm of update: insert c at the logical position.
\* &buffer[..offset] panics when offset is past the end of the buffer.
insert_char(st, c) ==
    LET offset == get_buffer_update_offset(st)
        len == Len(st.buffer)
    IN  IF offset > len
        THEN Panic(st)
        ELSE LET s1 == [st EXCEPT
                          !.buffer = SubSeq(st.buffer, 1, offset) \o <<c>>
                                     \o SubSeq(st.buffer, offset + 1, len)]
                 s2 == IF s1.cursor_offset + 1 >= s1.last_render_width
                       THEN [s1 EXCEPT !.visible_buffer_offset = @ + 1]
                       ELSE s1
             IN  go_right(s2)

\* KeyCode::Backspace arm of update.  Both slices panic when they reach past
\* the end of the buffer.  `first_part.len() + second_part.len() - 1` with
\* both parts empty panics with overflow checks, and without them asks
\* String::with_capacity for usize::MAX bytes, which panics as well
\* (capacity overflow).
backspace(st) ==
    LET offset == get_buffer_update_offset(st)
        len == Len(st.buffer)
        first_end == checked_sub_or_0(offset, 1)
    IN  IF first_end > len \/ offset > len
        THEN Panic(st)
        ELSE IF first_end + (len - offset) = 0
             THEN Panic(st)
             ELSE [st EXCEPT
                     !.buffer = SubSeq(st.buffer, 1, first_end)
                                \o SubSeq(st.buffer, offset + 1, len),
                     !.cursor_offset = checked_sub_or_0(@, 1)]

\* One pass of the consume_key_event! body of update (mode Editing).
update_editing(st, k) ==
    CASE IsChar(k) -> insert_char(st, k)
      [] k = "Left" -> go_left(st)
      [] k = "Right" -> go_right(st)
      [] k = "Backspace" -> backspace(st)
      [] OTHER -> st

\* events::consume_key_event! over the queued key events evs: the arms of
\* the calling method run once for every event, in arrival order
RECURSIVE consume_key_event(_, _, _)
consume_key_event(st, evs, in_editing) ==
    IF evs = <<>> \/ st.panicked
    THEN st
    ELSE consume_key_event(IF in_editing
                           THEN update_editing(st, Head(evs))
                           ELSE update_on_not_editing(st, Head(evs)),
                           Tail(evs), in_editing)

\* Input::update with evs queued: the mode is read once, before any event
update(st, evs) == consume_key_event(st, evs, st.editing)

\* One pass of the main loop up to the draw, with evs read by the polling
\* loop: every Esc among them has cleared the mode before render runs, and
\* render calls update only when the widget is focused.
tick(st, evs) ==
    LET polled == [st EXCEPT !.editing =
                       @ /\ \A i \in 1..Len(evs) : evs[i] # "Esc"]
    IN  IF polled.focused THEN update(polled, evs) ELSE polled

\* ----------------------------------------------------------------- render

\* Block::default().borders(Borders::ALL).inner(area)
block_inner(area) ==
    [x |-> Min(area.x + 1, area.x + area.width),
     y |-> area.y + 1,
     width |-> checked_sub_or_0(area.width, 2)]

\* The slice panics when visible_buffer_offset is past offset_end.
trimmed_buffer(st, area) ==
    LET offset_end == Min(Len(st.buffer), area.width + st.visible_buffer_offset)
    IN  IF st.visible_buffer_offset > offset_end
        THEN [panicked |-> TRUE, text |-> <<>>]
        ELSE [panicked |-> FALSE,
              text |-> SubSeq(st.buffer, st.visible_buffer_offset + 1,
                              offset_end)]

Areas == {[x |-> AreaX, y |-> AreaY, width |-> w] : w \in 0..MaxAreaWidth}

\* ------------------------------------------------------ reminders service

Notes == {"Testing", "Testing a new"}
Dates == 0..MaxDate
Ids == 1..MaxId
\* SimpleDate::local(): every call is made on the last day of Dates
Today == MaxDate

\* SimpleDate::to_string and SimpleDate::parse_from_rfc3339: a date is
\* written with a fixed number of digits and read back from them
to_string(date) == <<date \div 10, date % 10>>
parse_from_rfc3339(text) == text[1] * 10 + text[2]

\* SQLite compares two texts of the column byte by byte
text_le(a, b) == a[1] < b[1] \/ (a[1] = b[1] /\ a[2] <= b[2])

\* impl From<Reminder> for ReminderData
ReminderData(row) ==
    [id |-> row.id,
     note |-> row.note,
     remind_at |-> parse_from_rfc3339(row.remind_at),
     created_at |-> parse_from_rfc3339(row.created_at)]

\* enum ReminderQueryOptions
RemindAtGe(date) ==
    [kind |-> "RemindAtGe", date |-> date, start_date |-> 0, end_date |-> 0,
     ids |-> {}]
RemindAtLe(date) ==
    [kind |-> "RemindAtLe", date |-> date, start_date |-> 0, end_date |-> 0,
     ids |-> {}]
RemindAtBetween(end_date, start_date) ==
    [kind |-> "RemindAtBetween", date |-> 0, start_date |-> start_date,
     end_date |-> end_date, ids |-> {}]
WithIds(ids) ==
    [kind |-> "WithIds", date |-> 0, start_date |-> 0, end_date |-> 0,
     ids |-> ids]
WithoutIds(ids) ==
    [kind |-> "WithoutIds", date |-> 0, start_date |-> 0, end_date |-> 0,
     ids |-> ids]

ReminderQueryOptions ==
    {RemindAtGe(d) : d \in Dates} \cup {RemindAtLe(d) : d \in Dates}
    \cup {RemindAtBetween(e, s) : e \in Dates, s \in Dates}
    \cup {WithIds(ids) : ids \in SUBSET Ids}
    \cup {WithoutIds(ids) : ids \in SUBSET Ids}

\* a filter whose date bounds are exclusive
filter_exclusive(row, option) ==
    CASE option.kind = "RemindAtBetween" ->
             /\ to_string(option.start_date) # row.remind_at
             /\ text_le(to_string(option.start_date), row.remind_at)
             /\ row.remind_at # to_string(option.end_date)
             /\ text_le(row.remind_at, to_string(option.end_date))
      [] option.kind = "RemindAtGe" ->
             /\ to_string(option.date) # row.remind_at
             /\ text_le(to_string(option.date), row.remind_at)
      [] option.kind = "RemindAtLe" ->
             /\ to_string(option.date) # row.remind_at
             /\ text_le(row.remind_at, to_string(option.date))
      [] option.kind = "WithIds" -> row.id \in option.ids
      [] option.kind = "WithoutIds" -> row.id \notin option.ids

\* the filter an option adds to a query
filter(row, option) ==
    CASE option.kind = "RemindAtBetween" ->
             /\ text_le(to_string(option.start_date), row.remind_at)
             /\ text_le(row.remind_at, to_string(option.end_date))
      [] option.kind = "RemindAtGe" ->
             text_le(to_string(option.date), row.remind_at)
      [] option.kind = "RemindAtLe" ->
             text_le(row.remind_at, to_string(option.date))
      [] option.kind = "WithIds" -> row.id \in option.ids
      [] option.kind = "WithoutIds" -> row.id \notin option.ids

\* .order_by(reminders_dsl::id.asc())
RECURSIVE order_by_id(_)
order_by_id(rows) ==
    IF rows = {}
    THEN <<>>
    ELSE LET first == CHOOSE r \in rows : \A q \in rows : r.id <= q.id
         IN  <<first>> \o order_by_id(rows \ {first})

\* fetch_reminders; options is a sequence of options, None for no option
fetch_reminders(table, options) ==
    LET rows == order_by_id({row \in table :
                    \A i \in 1..Len(options) : filter(row, options[i])})
    IN  [i \in 1..Len(rows) |-> ReminderData(rows[i])]

\* fetch_reminder: Err when no row has the id
fetch_reminder(table, id) ==
    IF \E row \in table : row.id = id
    THEN [is_ok |-> TRUE,
          reminder |-> ReminderData(CHOOSE row \in table : row.id = id)]
    ELSE [is_ok |-> FALSE, reminder |-> None]

\* the id SQLite gives the next inserted row
next_rowid ==
    IF autoincrement
    THEN last_rowid + 1
    ELSE IF reminders_table = {}
         THEN 1
         ELSE (CHOOSE r \in reminders_table :
                   \A q \in reminders_table : q.id <= r.id).id + 1

\* impl From<CreateReminderData> for CreateReminder, with the id of the
\* inserted row; now is SimpleDate::local()
CreateReminder(note, remind_at, now) ==
    [id |-> next_rowid,
     note |-> note,
     remind_at |-> to_string(remind_at),
     created_at |-> to_string(now)]

\* DatabaseResult<T>
Ok(value) == <<"Ok", value>>
Err == <<"Err">>
is_ok(result) == result # None /\ result[1] = "Ok"

\* a failed query changes nothing
database_error ==
    /\ db_result' = Err
    /\ UNCHANGED <<reminders_table, last_rowid, autoincrement>>

create_reminder(note, remind_at, now, ok) ==
    /\ next_rowid <= MaxId
    /\ IF ok
       THEN /\ reminders_table' =
                   reminders_table \cup {CreateReminder(note, remind_at, now)}
            /\ last_rowid' = IF autoincrement THEN next_rowid ELSE last_rowid
            /\ db_result' =
                   Ok(ReminderData(CreateReminder(note, remind_at, now)))
            /\ UNCHANGED autoincrement
       ELSE database_error

\* impl From<UpdateReminderData> for UpdateReminder and the changeset it
\* makes of a row: a field that is None is not part of the SET clause.
\* note and remind_at are None or <<value>>.
UpdateReminder(row, note, remind_at) ==
    [row EXCEPT !.note = IF note = None THEN @ ELSE note[1],
                !.remind_at = IF remind_at = None
                              THEN @
                              ELSE to_string(remind_at[1])]

\* an update that writes a default into every field passed as None
update_reminder_overwrites(id, note, remind_at, ok) ==
    IF ok /\ (\E row \in reminders_table : row.id = id)
    THEN /\ reminders_table' =
                {[row EXCEPT !.note = IF note = None THEN "Testing" ELSE note[1],
                             !.remind_at = IF remind_at = None
                                           THEN to_string(0)
                                           ELSE to_string(remind_at[1])] :
                     row \in {r \in reminders_table : r.id = id}}
                \cup {r \in reminders_table : r.id # id}
         /\ db_result' = Ok(fetch_reminder(reminders_table', id).reminder)
         /\ UNCHANGED <<last_rowid, autoincrement>>
    ELSE database_error

\* update_reminder with every field None has no changes to save and with an
\* id that is not stored finds no row to return: both are errors
update_reminder(id, note, remind_at, ok) ==
    IF /\ ok
       /\ \E row \in reminders_table : row.id = id
       /\ note # None \/ remind_at # None
    THEN /\ reminders_table' =
                {IF row.id = id
                 THEN UpdateReminder(row, note, remind_at)
                 ELSE row : row \in reminders_table}
         /\ db_result' = Ok(fetch_reminder(reminders_table', id).reminder)
         /\ UNCHANGED <<last_rowid, autoincrement>>
    ELSE database_error

delete_reminders(option, ok) ==
    IF ok
    THEN /\ reminders_table' =
                {row \in reminders_table : ~filter(row, option)}
         /\ db_result' = Ok(None)
         /\ UNCHANGED <<last_rowid, autoincrement>>
    ELSE database_error

\* delete_reminder that deletes the row and every row before it
delete_reminder_up_to(id, ok) ==
    IF ok
    THEN /\ reminders_table' = {row \in reminders_table : row.id > id}
         /\ db_result' = Ok(None)
         /\ UNCHANGED <<last_rowid, autoincrement>>
    ELSE database_error

delete_reminder(id, ok) ==
    IF ok
    THEN /\ reminders_table' = {row \in reminders_table : row.id # id}
         /\ db_result' = Ok(None)
         /\ UNCHANGED <<last_rowid, autoincrement>>
    ELSE database_error

\* ----------------------------------------------------------- RemindersApp

\* impl From<View> for Box<dyn RemindersView>: a new view, in a new box,
\* on which init has been called inits times
View(kind, inits) ==
    [kind |-> kind, box |-> 1 - current_view.box, inits |-> inits]

\* enum Message
ChangeView(view) == <<"ChangeView", view>>
DeleteReminder(reminder_id) == <<"DeleteReminder", reminder_id>>
CreateReminderMessage(note, remind_at) ==
    <<"CreateReminder", [note |-> note, remind_at |-> remind_at]>>

Messages ==
    {ChangeView(view) : view \in {"List", "Create"}}
    \cup {DeleteReminder(id) : id \in Ids}
    \cup {CreateReminderMessage(note, remind_at) :
              note \in Notes, remind_at \in Dates}

\* FrameEvent
ReminderCreated(reminder) == <<"ReminderCreated", reminder>>
ReminderDeleted(reminder_id) == <<"ReminderDeleted", reminder_id>>

\* a render that tells the daemon of a change whatever the service call
\* returned
RemindersApp_render_notifies_always(m, ok, now) ==
    CASE m[1] = "ChangeView" ->
             /\ current_view' = View(m[2], 1)
             /\ server_msg' = None
             /\ UNCHANGED <<reminders_table, last_rowid, autoincrement,
                            db_result>>
      [] m[1] = "CreateReminder" ->
             /\ create_reminder(m[2].note, m[2].remind_at, now, ok)
             /\ server_msg' = ReminderCreated(ReminderData(
                                  CreateReminder(m[2].note, m[2].remind_at,
                                                 now)))
             /\ current_view' = View("List", 1)
      [] m[1] = "DeleteReminder" ->
             /\ current_view.inits < MaxInits
             /\ delete_reminder(m[2], ok)
             /\ server_msg' = ReminderDeleted(m[2])
             /\ current_view' = [current_view EXCEPT !.inits = @ + 1]

\* RemindersApp::render when current_view.update() returns Some(m); ok is
\* whether the service call succeeds, now is the clock
RemindersApp_render(m, ok, now) ==
    CASE m[1] = "ChangeView" ->
             /\ current_view' = View(m[2], 1)
             /\ server_msg' = None
             /\ UNCHANGED <<reminders_table, last_rowid, autoincrement,
                            db_result>>
      [] m[1] = "CreateReminder" ->
             /\ create_reminder(m[2].note, m[2].remind_at, now, ok)
             /\ server_msg' = IF is_ok(db_result')
                              THEN ReminderCreated(db_result'[2])
                              ELSE None
             /\ current_view' = View("List", 1)
      [] m[1] = "DeleteReminder" ->
             /\ current_view.inits < MaxInits
             /\ delete_reminder(m[2], ok)
             /\ IF is_ok(db_result')
                THEN /\ server_msg' = ReminderDeleted(m[2])
                     /\ current_view' = [current_view EXCEPT !.inits = @ + 1]
                ELSE /\ server_msg' = None
                     /\ UNCHANGED current_view

\* the database is empty and RemindersApp::new has run
RemindersInit ==
    /\ reminders_table = {}
    /\ last_rowid = 0
    /\ db_result = None
    /\ current_view = [kind |-> "List", box |-> 0, inits |-> 1]
    /\ server_msg = None

\* ---------------------------------------------------------------- actions

\* InputState::default(), Navigation mode, no event queued
InputInit ==
    /\ buffer = <<>>
    /\ focused = FALSE
    /\ cursor_offset = 0
    /\ visible_buffer_offset = 0
    /\ last_render_width = 0
    /\ editing = FALSE
    /\ events = <<>>
    /\ pc = "poll"
    /\ consumed = 0
    /\ frame_text = None
    /\ frame_cursor = None
    /\ overflow_checks \in BOOLEAN
    /\ fault = FALSE

Init ==
    /\ InputInit
    /\ RemindersInit
    /\ autoincrement = FALSE

\* the state becomes t; when t.panicked, t is the state the method had
\* reached when it panicked, and the process is gone
Become(t) ==
    /\ buffer' = t.buffer
    /\ focused' = t.focused
    /\ cursor_offset' = t.cursor_offset
    /\ visible_buffer_offset' = t.visible_buffer_offset
    /\ last_render_width' = t.last_render_width
    /\ editing' = t.editing
    /\ fault' = t.panicked

PendingChars == Cardinality({i \in 1..Len(events) : IsChar(events[i])})

\* Poll with Esc leaving Editing mode only while the widget is focused
Poll_esc_needs_focus(k) ==
    /\ pc = "poll" /\ ~fault
    /\ Len(events) < MaxQueue
    /\ events # <<>> => k \in BurstKeys
    /\ (editing /\ IsChar(k)) =>
           (k \in TypedChars /\ Len(buffer) + PendingChars < MaxLen)
    /\ k = "a" => cursor_offset + Len(events) < MaxCursor
    /\ events' = Append(events, k)
    /\ editing' = IF k = "Esc" /\ focused THEN FALSE ELSE editing
    /\ UNCHANGED <<buffer, focused, cursor_offset, visible_buffer_offset,
                   last_render_width, pc, consumed, frame_text, frame_cursor,
                   overflow_checks, fault>>
    /\ UNCHANGED reminders_vars

\* main: event::read() of a key event, its match, and events::push
Poll(k) ==
    /\ pc = "poll" /\ ~fault
    /\ Len(events) < MaxQueue
    /\ events # <<>> => k \in BurstKeys
    /\ (editing /\ IsChar(k)) =>
           (k \in TypedChars /\ Len(buffer) + PendingChars < MaxLen)
    /\ k = "a" => cursor_offset + Len(events) < MaxCursor
    /\ events' = Append(events, k)
    /\ editing' = IF k = "Esc" THEN FALSE ELSE editing
    /\ UNCHANGED <<buffer, focused, cursor_offset, visible_buffer_offset,
                   last_render_width, pc, consumed, frame_text, frame_cursor,
                   overflow_checks, fault>>
    /\ UNCHANGED reminders_vars

Focus ==
    /\ pc = "poll" /\ ~fault /\ ~focused
    /\ focused' = TRUE
    /\ UNCHANGED <<buffer, cursor_offset, visible_buffer_offset,
                   last_render_width, editing, events, pc, consumed,
                   frame_text, frame_cursor, overflow_checks, fault>>
    /\ UNCHANGED reminders_vars

Blur ==
    /\ pc = "poll" /\ ~fault /\ focused
    /\ focused' = FALSE
    /\ UNCHANGED <<buffer, cursor_offset, visible_buffer_offset,
                   last_render_width, editing, events, pc, consumed,
                   frame_text, frame_cursor, overflow_checks, fault>>
    /\ UNCHANGED reminders_vars

\* RenderUpdate without the test of state.focused
RenderUpdate_ignores_focus ==
    /\ pc = "poll" /\ ~fault
    /\ pc' = IF editing THEN "editing" ELSE "navigation"
    /\ consumed' = 0
    /\ UNCHANGED <<buffer, focused, cursor_offset, visible_buffer_offset,
                   last_render_width, editing, events, frame_text,
                   frame_cursor, overflow_checks, fault>>
    /\ UNCHANGED reminders_vars

\* render of a focused widget enters update, which reads the mode once
RenderUpdate ==
    /\ pc = "poll" /\ ~fault /\ focused
    /\ pc' = IF editing THEN "editing" ELSE "navigation"
    /\ consumed' = 0
    /\ UNCHANGED <<buffer, focused, cursor_offset, visible_buffer_offset,
                   last_render_width, editing, events, frame_text,
                   frame_cursor, overflow_checks, fault>>
    /\ UNCHANGED reminders_vars

\* events::consume_key_event! runs its arms once for every queued key
\* event, in arrival order, and leaves the queue as it is
HasNextEvent == consumed < Len(events)
NextEvent == events[consumed + 1]

ConsumeNavigation ==
    /\ pc = "navigation" /\ ~fault
    /\ HasNextEvent
    /\ Become(update_on_not_editing(Cur, NextEvent))
    /\ consumed' = consumed + 1
    /\ UNCHANGED <<events, pc, frame_text, frame_cursor, overflow_checks>>
    /\ UNCHANGED reminders_vars

ConsumeEditing ==
    /\ pc = "editing" /\ ~fault
    /\ HasNextEvent
    /\ Become(update_editing(Cur, NextEvent))
    /\ consumed' = consumed + 1
    /\ UNCHANGED <<events, pc, frame_text, frame_cursor, overflow_checks>>
    /\ UNCHANGED reminders_vars

\* the rest of render after update (or all of it when the widget is not
\* focused): set_cursor, last_render_width, and the text of the Paragraph
Project(area) ==
    LET block_area == block_inner(area)
        st == [Cur EXCEPT !.last_render_width = block_area.width]
        trimmed == trimmed_buffer(st, area)
    IN  /\ Become(IF trimmed.panicked THEN Panic(st) ELSE st)
        /\ IF trimmed.panicked
           THEN UNCHANGED <<pc, frame_text, frame_cursor>>
           ELSE /\ frame_text' = trimmed.text
                /\ frame_cursor' =
                       IF focused
                       THEN <<cursor_offset + block_area.x, block_area.y>>
                       ELSE None
                /\ pc' = "drawn"
        /\ consumed' = 0
        /\ UNCHANGED <<events, overflow_checks>>
        /\ UNCHANGED reminders_vars

RenderFocused(area) ==
    /\ pc \in {"navigation", "editing"} /\ ~fault
    /\ ~HasNextEvent
    /\ Project(area)

RenderUnfocused(area) ==
    /\ pc = "poll" /\ ~fault /\ ~focused
    /\ Project(area)

\* main: terminal.draw returns (its Frame is gone), events::clear(), sleep
EndTick ==
    /\ pc = "drawn" /\ ~fault
    /\ events' = <<>>
    /\ consumed' = 0
    /\ frame_text' = None
    /\ frame_cursor' = None
    /\ pc' = "poll"
    /\ UNCHANGED <<buffer, focused, cursor_offset, visible_buffer_offset,
                   last_render_width, editing, overflow_checks, fault>>
    /\ UNCHANGED reminders_vars

Next ==
    \/ \E k \in Keys : Poll(k)
    \/ Focus
    \/ Blur
    \/ RenderUpdate
    \/ ConsumeNavigation
    \/ ConsumeEditing
    \/ \E area \in Areas : RenderFocused(area)
    \/ \E area \in Areas : RenderUnfocused(area)
    \/ EndTick

Spec == Init /\ [][Next]_vars

TypeOK ==
    /\ Len(buffer) <= MaxLen
    /\ focused \in BOOLEAN
    /\ cursor_offset \in 0..(U16 - 1)
    /\ visible_buffer_offset \in Nat
    /\ last_render_width \in 0..MaxAreaWidth
    /\ editing \in BOOLEAN
    /\ Len(events) <= MaxQueue
    /\ pc \in {"poll", "navigation", "editing", "drawn"}
    /\ fault \in BOOLEAN
    /\ cursor_offset <= MaxCursor + 1
    /\ visible_buffer_offset <= MaxLen + MaxCursor

\* --------------------------------------------- reminders: calls and render

\* the callers of the service outside RemindersApp
CallCreateReminder(note, remind_at, now, ok) ==
    /\ create_reminder(note, remind_at, now, ok)
    /\ UNCHANGED <<current_view, server_msg>>
    /\ UNCHANGED input_vars

CallUpdateReminder(id, note, remind_at, ok) ==
    /\ update_reminder(id, note, remind_at, ok)
    /\ UNCHANGED <<current_view, server_msg>>
    /\ UNCHANGED input_vars

CallDeleteReminders(option, ok) ==
    /\ delete_reminders(option, ok)
    /\ UNCHANGED <<current_view, server_msg>>
    /\ UNCHANGED input_vars

CallDeleteReminder(id, ok) ==
    /\ delete_reminder(id, ok)
    /\ UNCHANGED <<current_view, server_msg>>
    /\ UNCHANGED input_vars

Render(m, ok, now) ==
    /\ RemindersApp_render(m, ok, now)
    /\ UNCHANGED input_vars

\* None or Some(value)
Option(values) == {None} \cup {<<v>> : v \in values}

InitReminders ==
    /\ InputInit
    /\ ~overflow_checks
    /\ RemindersInit
    /\ autoincrement \in BOOLEAN

NextReminders ==
    \/ \E note \in Notes, remind_at \in Dates, ok \in BOOLEAN :
           CallCreateReminder(note, remind_at, Today, ok)
    \/ \E id \in Ids, note \in Option(Notes), remind_at \in Option(Dates),
          ok \in BOOLEAN :
           CallUpdateReminder(id, note, remind_at, ok)
    \/ \E option \in ReminderQueryOptions, ok \in BOOLEAN :
           CallDeleteReminders(option, ok)
    \/ \E id \in Ids, ok \in BOOLEAN : CallDeleteReminder(id, ok)

NextApp ==
    \E m \in Messages, ok \in BOOLEAN : Render(m, ok, Today)

SpecApp == InitReminders /\ [][NextApp]_vars

SpecReminders == InitReminders /\ [][NextReminders]_vars

\* ------------------------------------------------------------------------
\* Claims
\* ------------------------------------------------------------------------

\* update is about to process key k in mode Navigation / Editing
NavKey(k) ==
    pc = "navigation" /\ ~fault /\ HasNextEvent /\ NextEvent = k
EditKey(k) ==
    pc = "editing" /\ ~fault /\ HasNextEvent /\ NextEvent = k
\* update has just processed key k (the only one of this tick)
NavDone(k) ==
    pc = "navigation" /\ consumed = 1 /\ events[1] = k /\ ~fault
EditDone(k) ==
    pc = "editing" /\ consumed = 1 /\ events[1] = k /\ ~fault

logical_position == visible_buffer_offset + cursor_offset

\* C1 (invariant I1): in every reachable state, whenever last_render_width
\* is positive the cursor column is below it.
C1_CursorInsideWidth ==
    last_render_width > 0 => cursor_offset < last_render_width

\* C2 (invariant I2): in every reachable state the logical cursor position
\* is inside the buffer: visible_buffer_offset + cursor_offset <= length.
C2_PositionInsideBuffer ==
    logical_position <= Len(buffer)

\* C3 (invariant I3): in every reachable state the window start is inside
\* the buffer: visible_buffer_offset <= length.
C3_WindowStartInsideBuffer ==
    visible_buffer_offset <= Len(buffer)

\* C4: no operation of the editing core fails: no reachable state has
\* panicked.
C4_NoFault ==
    ~fault

\* C5: Backspace at logical position 0 in mode Editing is a no-op that does
\* not fault: buffer, cursor column and window start are unchanged.
C5_BackspaceAtStartNoOp ==
    [][(EditKey("Backspace") /\ logical_position = 0) =>
          /\ ~fault'
          /\ buffer' = buffer
          /\ cursor_offset' = cursor_offset
          /\ visible_buffer_offset' = visible_buffer_offset]_vars

\* a render pass has just stored a smaller, positive width that leaves the
\* cursor column at or beyond it
ShrinkingRender ==
    /\ pc' = "drawn"
    /\ last_render_width' < last_render_width
    /\ last_render_width' > 0
    /\ cursor_offset' >= last_render_width'

\* C6: after a render that stored a smaller width and left the cursor column
\* at or beyond it, the very next move_left or move_right (applied to the
\* state that render left) leaves the cursor column below last_render_width.
C6_ResizeSelfCorrects ==
    [][ShrinkingRender =>
          LET left == go_left(Cur')
              right == go_right(Cur')
          IN  /\ ~left.panicked /\ ~right.panicked
              /\ left.cursor_offset < last_render_width'
              /\ right.cursor_offset < last_render_width']_vars

Max(a, b) == IF a > b THEN a ELSE b

\* the Rect whose inner width (inside the borders) is w
AreaOfInnerWidth(w) == [x |-> AreaX, y |-> AreaY, width |-> w + 2]

\* the last n characters of a sequence
Final(seq, n) == SubSeq(seq, Len(seq) - n + 1, Len(seq))

\* update is about to run go_far_right: the '$' and 'A' bindings
JumpLineEndKey == NavKey("$") \/ NavKey("A")
\* update is about to run go_far_left: the '^' and 'I' bindings
JumpLineStartKey == NavKey("^") \/ NavKey("I")
\* update is about to run go_left: 'h', or the Left arrow in mode Editing
MoveLeftKey == NavKey("h") \/ EditKey("Left")

HelloWorld == <<"h", "e", "l", "l", "o", " ", "w", "o", "r", "l", "d">>

\* Scenario A: "hello world" in a window of width 5
ScenarioA ==
    LET st == [buffer |-> HelloWorld, focused |-> TRUE, cursor_offset |-> 0,
               visible_buffer_offset |-> 0, last_render_width |-> 5,
               editing |-> FALSE, panicked |-> FALSE]
        t == go_far_right(st)
    IN  /\ ~t.panicked
        /\ t.visible_buffer_offset = 6
        /\ t.cursor_offset = 4
        /\ t.buffer = HelloWorld
        /\ trimmed_buffer(t, AreaOfInnerWidth(5)).text
               = <<"w", "o", "r", "l", "d">>

\* C7: with last_render_width = w >= 1 and a buffer of length L,
\* jump_line_end leaves cursor_offset = min(L, w - 1) and
\* visible_buffer_offset = max(L - w, 0), does not change the buffer and does
\* not fault, and the text projected at width w is the final min(L, w)
\* characters of the buffer ("hello world", w = 5: window 6, column 4,
\* text "world").
C7_JumpLineEndPost ==
    [][(JumpLineEndKey /\ last_render_width >= 1) =>
          LET L == Len(buffer)
              w == last_render_width
          IN  /\ ~fault'
              /\ cursor_offset' = Min(L, w - 1)
              /\ visible_buffer_offset' = Max(L - w, 0)
              /\ buffer' = buffer
              /\ last_render_width' = w
              /\ LET shown == trimmed_buffer(Cur', AreaOfInnerWidth(w))
                 IN  ~shown.panicked /\ shown.text = Final(buffer, Min(L, w))
              /\ ScenarioA]_vars

\* C7 witness: '$' has just run on a buffer longer than the window, which
\* is now scrolled so that the last character is in its last column.
C7_Witness ==
    /\ NavDone("$")
    /\ last_render_width >= 2
    /\ Len(buffer) > last_render_width
    /\ visible_buffer_offset = Len(buffer) - last_render_width
    /\ cursor_offset = last_render_width - 1

\* C8: jump_line_end is idempotent: applied to the state it has just
\* produced, it yields the same window start and cursor column.
C8_JumpLineEndIdempotent ==
    [][(JumpLineEndKey /\ ~fault') =>
          LET again == go_far_right(Cur')
          IN  /\ ~again.panicked
              /\ again.visible_buffer_offset = visible_buffer_offset'
              /\ again.cursor_offset = cursor_offset'
              /\ again.buffer = buffer']_vars

\* C8 witness: 'A' has just run on a non-empty buffer longer than the
\* one-column window, so the window is scrolled.
C8_Witness ==
    /\ NavDone("A")
    /\ last_render_width = 1
    /\ Len(buffer) >= 2
    /\ visible_buffer_offset = Len(buffer) - 1
    /\ editing

\* C9: jump_line_start from any state yields visible_buffer_offset = 0 and
\* cursor_offset = 0, leaves the buffer unchanged and does not fault.
C9_JumpLineStartPost ==
    [][JumpLineStartKey =>
          /\ ~fault'
          /\ visible_buffer_offset' = 0
          /\ cursor_offset' = 0
          /\ buffer' = buffer]_vars

\* C9 witness: '^' has just run on a buffer longer than the window (where
\* jump_line_end leaves a scrolled window), and the window is back at 0.
C9_Witness ==
    /\ NavDone("^")
    /\ last_render_width >= 1
    /\ Len(buffer) > last_render_width
    /\ visible_buffer_offset = 0
    /\ cursor_offset = 0

\* C10: move_left decrements cursor_offset alone when it is positive,
\* otherwise decrements visible_buffer_offset alone when that is positive,
\* otherwise changes nothing; so the logical position decreases by exactly
\* one whenever it is positive.  The buffer is unchanged and nothing faults.
C10_MoveLeftPost ==
    [][MoveLeftKey =>
          /\ ~fault'
          /\ buffer' = buffer
          /\ IF cursor_offset > 0
             THEN /\ cursor_offset' = cursor_offset - 1
                  /\ visible_buffer_offset' = visible_buffer_offset
             ELSE IF visible_buffer_offset > 0
                  THEN /\ visible_buffer_offset' = visible_buffer_offset - 1
                       /\ cursor_offset' = 0
                  ELSE /\ visible_buffer_offset' = 0
                       /\ cursor_offset' = 0
          /\ logical_position > 0 =>
                 visible_buffer_offset' + cursor_offset' = logical_position - 1
          ]_vars

\* C10 witness: 'h' has just run and the cursor is in column 0 of a window
\* that is still scrolled (the next 'h' scrolls).
C10_Witness ==
    /\ NavDone("h")
    /\ cursor_offset = 0
    /\ visible_buffer_offset > 0
    /\ visible_buffer_offset < Len(buffer)

\* a key that runs go_right: 'l' in Navigation, Right in Editing
MoveRightKey == NavKey("l") \/ EditKey("Right")

\* C11: move_right changes nothing when the logical position is the buffer
\* length; from every other position inside the buffer it advances the
\* logical position by exactly one, through cursor_offset when that is below
\* get_max_right_cursor_pos and through visible_buffer_offset otherwise.
\* Stated for widths of at least one column and positions inside the buffer.
C11_MoveRightPost ==
    [][(MoveRightKey /\ last_render_width >= 1
                     /\ logical_position <= Len(buffer)) =>
          /\ ~fault'
          /\ buffer' = buffer
          /\ IF logical_position = Len(buffer)
             THEN /\ cursor_offset' = cursor_offset
                  /\ visible_buffer_offset' = visible_buffer_offset
             ELSE IF cursor_offset < get_max_right_cursor_pos(Cur)
                  THEN /\ cursor_offset' = cursor_offset + 1
                       /\ visible_buffer_offset' = visible_buffer_offset
                  ELSE /\ cursor_offset' = cursor_offset
                       /\ visible_buffer_offset' = visible_buffer_offset + 1
          ]_vars

\* a character key is about to be handled by the Editing arm of update
InsertKey(c) == IsChar(c) /\ EditKey(c)

\* seq with element c put in front of index p + 1 (p counted from 0)
InsertAt(seq, p, c) ==
    SubSeq(seq, 1, p) \o <<c>> \o SubSeq(seq, p + 1, Len(seq))

\* Scenario B of the specification: buffer "ab", logical position 1
ScenarioB(w) ==
    [Cur EXCEPT !.buffer = <<"a", "b">>,
                !.cursor_offset = 1,
                !.visible_buffer_offset = 0,
                !.last_render_width = w,
                !.editing = TRUE,
                !.focused = TRUE]

\* C12: in Editing mode a typed character c at logical position p, p not past
\* the end of the buffer, leaves the buffer old[0..p] + c + old[p..]: one
\* character longer, every old character kept and in its old order.  In
\* Scenario B, "ab" with 'x' typed at position 1 becomes "axb".
C12_InsertContent ==
    [][(pc = "editing" /\ ~fault /\ HasNextEvent /\ IsChar(NextEvent)
                       /\ logical_position <= Len(buffer)) =>
          /\ buffer' = InsertAt(buffer, logical_position, NextEvent)
          /\ Len(buffer') = Len(buffer) + 1
          /\ \A w \in 0..MaxAreaWidth :
                 insert_char(ScenarioB(w), "x").buffer = <<"a", "x", "b">>
          ]_vars

\* C12 witness: '$' has just been typed between two characters of the
\* buffer.
C12_Witness ==
    /\ EditDone("$")
    /\ Len(buffer) = 3
    /\ buffer[1] # "$" /\ buffer[2] = "$" /\ buffer[3] # "$"
    /\ logical_position = 2

\* C13: in Editing mode a typed character at logical position p leaves the
\* logical position p + 1, also when the cursor was in the last visible
\* column with text beyond the right edge.  Stated for widths of at least
\* one column and positions inside the buffer.
C13_InsertAdvancesByOne ==
    [][\A c \in KeyChars :
          (InsertKey(c) /\ last_render_width >= 1
                        /\ logical_position <= Len(buffer)) =>
              /\ ~fault'
              /\ visible_buffer_offset' + cursor_offset'
                     = logical_position + 1]_vars

\* C14: Backspace in Editing mode at a logical position p with
\* 0 < p <= buffer length removes the character at index p - 1 and nothing
\* else, lowers cursor_offset by one unless it is 0, and leaves
\* visible_buffer_offset alone, for every buffer of length 1 or more.
C14_BackspaceRemovesPrevious ==
    [][(EditKey("Backspace") /\ logical_position > 0
                             /\ logical_position <= Len(buffer)) =>
          /\ ~fault'
          /\ buffer' = SubSeq(buffer, 1, logical_position - 1)
                       \o SubSeq(buffer, logical_position + 1, Len(buffer))
          /\ Len(buffer') = Len(buffer) - 1
          /\ cursor_offset' = Max(cursor_offset - 1, 0)
          /\ visible_buffer_offset' = visible_buffer_offset]_vars

\* end_of_word of the specification (section 4.2): scan from p + 1, skip
\* whitespace, run through one character class; the result is the last
\* position of that class, or 0 when the scan left position 0 out of bounds
end_of_word(chars, p) ==
    LET first == scan_forward(p + 1, chars, 0)
        class == get_char_class(first, chars)
        stop == IF class = -1 THEN first ELSE scan_forward(first, chars, class)
    IN  checked_sub_or_0(stop, 1)

\* C15: the 'e' binding leaves the logical position end_of_word(p), whatever
\* visible_buffer_offset was before.  Stated for widths of at least one
\* column and positions inside the buffer.
C15_EndOfWordLands ==
    [][(NavKey("e") /\ last_render_width >= 1
                    /\ logical_position <= Len(buffer)) =>
          /\ ~fault'
          /\ visible_buffer_offset' + cursor_offset'
                 = end_of_word(buffer, logical_position)]_vars

\* back_word of the specification (section 4.2): scan backward from p - 1
\* (clamped at 0), skip whitespace, then run through one character class,
\* stopping at position 0 whenever it is reached
back_word(chars, p) ==
    LET first == scan_backward(checked_sub_or_0(p, 1), chars, 0)
        class == get_char_class(first, chars)
    IN  IF first = 0 \/ class = -1
        THEN first
        ELSE scan_backward(first, chars, class)

\* C16: the 'b' binding leaves the logical position R = back_word(p); when R
\* is before the old visible_buffer_offset the window moves to R and
\* cursor_offset becomes 0, otherwise the window stays and cursor_offset
\* becomes R - visible_buffer_offset.  Stated for positions inside the
\* buffer.
C16_BackWordLands ==
    [][(NavKey("b") /\ logical_position <= Len(buffer)) =>
          LET R == back_word(buffer, logical_position)
          IN  /\ ~fault'
              /\ visible_buffer_offset' + cursor_offset' = R
              /\ IF R < visible_buffer_offset
                 THEN /\ visible_buffer_offset' = R
                      /\ cursor_offset' = 0
                 ELSE /\ visible_buffer_offset' = visible_buffer_offset
                      /\ cursor_offset' = R - visible_buffer_offset]_vars

\* the keys that enter Editing mode
ModeEntryKeys == {"i", "I", "a", "A"}

\* C17: in Navigation mode with the widget focused, 'i', 'I', 'a' and 'A'
\* each set the mode to Editing and leave the buffer alone; 'i' keeps
\* cursor_offset and visible_buffer_offset, 'I' leaves both 0
\* (jump_line_start), 'A' leaves the offsets of jump_line_end, and 'a' adds
\* one to cursor_offset; no other key turns the mode into Editing.  The
\* offsets of jump_line_end are those of C7, stated for widths of at least
\* one column.
C17_ModeEntry ==
    [][\A k \in Keys :
          (NavKey(k) /\ focused) =>
              IF k \in ModeEntryKeys
              THEN /\ ~fault'
                   /\ editing'
                   /\ buffer' = buffer
                   /\ k = "i" => /\ cursor_offset' = cursor_offset
                                 /\ visible_buffer_offset'
                                        = visible_buffer_offset
                   /\ k = "I" => /\ cursor_offset' = 0
                                 /\ visible_buffer_offset' = 0
                   /\ (k = "A" /\ last_render_width >= 1) =>
                          /\ cursor_offset'
                                 = Min(Len(buffer),
                                       checked_sub_or_0(last_render_width, 1))
                          /\ visible_buffer_offset'
                                 = checked_sub_or_0(Len(buffer),
                                                    last_render_width)
                   /\ k = "a" => /\ cursor_offset' = cursor_offset + 1
                                 /\ visible_buffer_offset'
                                        = visible_buffer_offset
              ELSE editing' => editing]_vars

\* the host reads an Escape key event
EscapeReceived == pc = "poll" /\ events' = Append(events, "Esc")

\* C18: whenever the host receives Escape the mode becomes Navigation,
\* whatever it was and whether or not the widget is focused; neither the
\* receipt nor the widget's later handling of the queued Escape changes
\* buffer, cursor_offset or visible_buffer_offset.
C18_EscapeUnconditional ==
    [][/\ EscapeReceived =>
              /\ ~editing'
              /\ buffer' = buffer
              /\ cursor_offset' = cursor_offset
              /\ visible_buffer_offset' = visible_buffer_offset
       /\ (NavKey("Esc") \/ EditKey("Esc")) =>
              /\ ~fault'
              /\ editing' = editing
              /\ buffer' = buffer
              /\ cursor_offset' = cursor_offset
              /\ visible_buffer_offset' = visible_buffer_offset]_vars

\* C18 witness: Escape has just been received by a host whose widget is not
\* focused and holds text in a scrolled window; the mode is Navigation.
C18_Witness ==
    /\ pc = "poll"
    /\ events # <<>> /\ events[Len(events)] = "Esc"
    /\ ~focused
    /\ ~editing
    /\ visible_buffer_offset > 0
    /\ buffer # <<>>

\* the key sequences one tick may queue, up to MaxTick events
TickSeqs == UNION {[1..n -> Keys] : n \in 0..MaxTick}

\* the events applied one at a time in arrival order, each interpreted
\* against the mode the events before it have left
RECURSIVE in_arrival_order(_, _)
in_arrival_order(st, evs) ==
    IF evs = <<>> \/ st.panicked
    THEN st
    ELSE LET k == Head(evs)
             next == IF k = "Esc"
                     THEN [st EXCEPT !.editing = FALSE]
                     ELSE IF st.editing
                          THEN update_editing(st, k)
                          ELSE update_on_not_editing(st, k)
         IN  in_arrival_order(next, Tail(evs))

\* C19: for every sequence of key events queued in one tick of a focused
\* widget, the mode, buffer, cursor_offset and visible_buffer_offset at frame
\* projection are those of applying the events one at a time in arrival
\* order, each against the mode left by the events before it.  Compared
\* wherever neither way of applying them panics.
C19_ArrivalOrder ==
    (pc = "poll" /\ events = <<>> /\ focused /\ ~fault) =>
        \A evs \in TickSeqs :
            LET projected == tick(Cur, evs)
                in_order == in_arrival_order(Cur, evs)
            IN  (~projected.panicked /\ ~in_order.panicked) =>
                    /\ projected.editing = in_order.editing
                    /\ projected.buffer = in_order.buffer
                    /\ projected.cursor_offset = in_order.cursor_offset
                    /\ projected.visible_buffer_offset
                           = in_order.visible_buffer_offset

\* C20: while the widget is not focused, no step changes buffer,
\* cursor_offset or visible_buffer_offset, and the mode changes only when
\* the host receives Escape; the render pass handles none of the queued key
\* events, leaves the mode and the queue as they are, sets no caret, and
\* updates last_render_width alone.
C20_UnfocusedAcceptsNoInput ==
    [][~focused =>
          /\ buffer' = buffer
          /\ cursor_offset' = cursor_offset
          /\ visible_buffer_offset' = visible_buffer_offset
          /\ editing' # editing => EscapeReceived
          /\ pc' \in {"poll", "drawn"}
          /\ consumed' = 0
          /\ last_render_width' # last_render_width =>
                 /\ pc = "poll"
                 /\ pc' = "drawn" \/ fault'
          /\ (pc = "poll" /\ pc' = "drawn") =>
                 /\ frame_cursor' = None
                 /\ editing' = editing
                 /\ events' = events
                 /\ focused' = focused]_vars

\* C20 witness: a widget that is not focused has just been rendered in
\* Editing mode with a character key queued; it holds text, and the frame
\* has no caret.
C20_Witness ==
    /\ pc = "drawn"
    /\ ~focused
    /\ editing
    /\ events # <<>> /\ IsChar(events[1])
    /\ buffer # <<>>
    /\ last_render_width > 0
    /\ frame_cursor = None

\* C21: the text of a drawn frame is buffer[window_start ..
\* window_start + min(w, length - window_start)] for the width w that the
\* render stored in last_render_width, so it is never longer than w; and the
\* caret of a focused widget is at (cursor_offset + left, top) of the inner
\* region.
C21_RenderProjection ==
    pc = "drawn" =>
        LET w == last_render_width
            n == Min(w, Len(buffer) - visible_buffer_offset)
        IN  /\ frame_text = SubSeq(buffer, visible_buffer_offset + 1,
                                   visible_buffer_offset + n)
            /\ Len(frame_text) <= w
            /\ focused =>
                   frame_cursor \in
                       {<<cursor_offset + block_inner(a).x, block_inner(a).y>> :
                            a \in {b \in Areas : block_inner(b).width = w}}

\* C26: the buffer changes only in the step that handles a character key or
\* Backspace in Editing mode; Navigation keys, Left and Right, Escape, focus,
\* blur and render leave it as it is.
C26_BufferMutatedOnlyByEditing ==
    [][buffer' # buffer =>
          /\ pc = "editing"
          /\ editing
          /\ HasNextEvent
          /\ IsChar(NextEvent) \/ NextEvent = "Backspace"]_vars

\* C26 witness: the Navigation binding 'b' has just been handled on a
\* buffer that holds two words, which it has left in place.
C26_Witness ==
    /\ NavDone("b")
    /\ buffer = <<"a", " ", "a">>
    /\ logical_position = 2

\* C25: the 'e' binding moves the window only when end_of_word(p) lies
\* outside the visible window [visible_buffer_offset, visible_buffer_offset
\* + last_render_width), and then leaves the cursor in the column
\* get_max_right_cursor_pos; when the result is inside the window, the
\* window stays and cursor_offset becomes result - visible_buffer_offset.
\* Stated for positions inside the buffer and a max_right of at least one.
C25_EndOfWordRescrollsWhenNeeded ==
    [][(NavKey("e") /\ last_render_width >= 1
                    /\ get_max_right_cursor_pos(Cur) >= 1
                    /\ logical_position <= Len(buffer)) =>
          LET result == end_of_word(buffer, logical_position)
              inside == /\ visible_buffer_offset <= result
                        /\ result < visible_buffer_offset + last_render_width
          IN  /\ ~fault'
              /\ visible_buffer_offset' # visible_buffer_offset =>
                     /\ ~inside
                     /\ cursor_offset' = get_max_right_cursor_pos(Cur)
              /\ inside =>
                     /\ visible_buffer_offset' = visible_buffer_offset
                     /\ cursor_offset' = result - visible_buffer_offset]_vars

\* C27: from a logical position inside the buffer, the 'e' binding never
\* lowers the logical position and the 'b' binding never raises it.
C27_WordJumpsMonotone ==
    [][/\ (NavKey("e") /\ logical_position <= Len(buffer)) =>
              visible_buffer_offset' + cursor_offset' >= logical_position
       /\ (NavKey("b") /\ logical_position <= Len(buffer)) =>
              visible_buffer_offset' + cursor_offset' <= logical_position
      ]_vars

\* the ids of the rows of a table
StoredIds(table) == {row.id : row \in table}

\* the step is a call that returned Ok(()), as the deletes do, or
\* Ok(reminder), as create and update do
ReturnedUnit == db_result' = Ok(None)
ReturnedReminder == is_ok(db_result') /\ db_result'[2] # None

\* after a delete aimed at ids: no deleted id can be fetched, and every
\* other id is fetched exactly as before
DeletedExactly(ids) ==
    \A id \in Ids :
        IF id \in ids
        THEN ~fetch_reminder(reminders_table', id).is_ok
        ELSE fetch_reminder(reminders_table', id)
                 = fetch_reminder(reminders_table, id)

\* C22: after delete_reminder(id), or delete_reminders(WithIds ids), has
\* succeeded on any table, fetch_reminder fails for every deleted id and
\* returns every other stored reminder with the fields it had.
C22_DeleteRemovesExactlyTargets ==
    [][ReturnedUnit =>
           /\ \A id \in Ids :
                  delete_reminder(id, TRUE) => DeletedExactly({id})
           /\ \A ids \in SUBSET Ids :
                  delete_reminders(WithIds(ids), TRUE) => DeletedExactly(ids)
      ]_vars

\* C22 witness: the table has handed out three ids and a successful call
\* has left only the reminder with id 2 of them.
C22_Witness ==
    /\ autoincrement
    /\ last_rowid = 3
    /\ StoredIds(reminders_table) = {2}
    /\ db_result = Ok(None)

\* what a fetched reminder must satisfy for an option, on its parsed dates
Satisfies(reminder, option) ==
    CASE option.kind = "RemindAtBetween" ->
             /\ option.start_date <= reminder.remind_at
             /\ reminder.remind_at <= option.end_date
      [] option.kind = "RemindAtGe" -> option.date <= reminder.remind_at
      [] option.kind = "RemindAtLe" -> reminder.remind_at <= option.date
      [] option.kind = "WithIds" -> reminder.id \in option.ids
      [] option.kind = "WithoutIds" -> reminder.id \notin option.ids

\* the option lists of the calls examined: no option, every single option,
\* and RemindAtBetween together with WithoutIds
OptionLists ==
    {<<>>}
    \cup {<<option>> : option \in ReminderQueryOptions}
    \cup {<<RemindAtBetween(e, s), WithoutIds(ids)>> :
              e \in Dates, s \in Dates, ids \in SUBSET Ids}

\* the result holds exactly the stored reminders satisfying every option,
\* each once, by ascending id
ExactlyTheMatches(options) ==
    LET fetched == fetch_reminders(reminders_table, options)
        matches == {row \in reminders_table :
                        \A i \in 1..Len(options) :
                            Satisfies(ReminderData(row), options[i])}
    IN  /\ {fetched[i] : i \in 1..Len(fetched)}
               = {ReminderData(row) : row \in matches}
        /\ Len(fetched) = Cardinality(matches)
        /\ \A i \in 1..Len(fetched) - 1 : fetched[i].id < fetched[i + 1].id

\* a create puts the new reminder after every reminder created before it
CreatedLast ==
    \A note \in Notes, remind_at \in Dates :
        ReturnedReminder /\ create_reminder(note, remind_at, Today, TRUE) =>
            LET before == fetch_reminders(reminders_table, <<>>)
                after == fetch_reminders(reminders_table', <<>>)
            IN  /\ Len(after) = Len(before) + 1
                /\ SubSeq(after, 1, Len(before)) = before
                /\ after[Len(after)].note = note
                /\ after[Len(after)].remind_at = remind_at

\* C23: after any sequence of creates and deletes, fetch_reminders returns
\* exactly the stored reminders that satisfy every supplied option (none =
\* all; RemindAtBetween = remind_at within [start_date, end_date];
\* WithoutIds = id not in ids), each once, in ascending id order, and that
\* order is creation order: every create lands after the reminders
\* created earlier.
C23_FetchReturnsMatchesInOrder ==
    /\ [](\A options \in OptionLists : ExactlyTheMatches(options))
    /\ [][CreatedLast]_vars

\* C23 witness: reminders 1 and 3 are stored, reminder 2 was deleted, and
\* RemindAtBetween with WithoutIds selects reminder 3 alone.
C23_Witness ==
    /\ StoredIds(reminders_table) = {1, 3}
    /\ fetch_reminder(reminders_table, 1).reminder.remind_at = 0
    /\ fetch_reminder(reminders_table, 3).reminder.remind_at = 1
    /\ Len(fetch_reminders(reminders_table,
               <<RemindAtBetween(1, 1), WithoutIds({2})>>)) = 1

\* the value a field has after an update that passed new for it
Updated(stored, new) == IF new = None THEN stored ELSE new[1]

\* C24: update_reminder changes only the supplied fields of the addressed
\* reminder: a field passed as None (note or remind_at) keeps its stored
\* value, a field passed as Some takes the new value, the id is unchanged,
\* and no other reminder in the table is modified.
C24_UpdateChangesOnlySupplied ==
    [][\A id \in Ids, note \in Option(Notes), remind_at \in Option(Dates) :
           ReturnedReminder /\ update_reminder(id, note, remind_at, TRUE) =>
               LET stored == fetch_reminder(reminders_table, id).reminder
                   after == fetch_reminder(reminders_table', id)
               IN  /\ after.is_ok
                   /\ db_result' = Ok(after.reminder)
                   /\ after.reminder.id = id
                   /\ after.reminder.note = Updated(stored.note, note)
                   /\ after.reminder.remind_at
                          = Updated(stored.remind_at, remind_at)
                   /\ after.reminder.created_at = stored.created_at
                   /\ StoredIds(reminders_table') = StoredIds(reminders_table)
                   /\ \A other \in Ids \ {id} :
                          fetch_reminder(reminders_table', other)
                              = fetch_reminder(reminders_table, other)
      ]_vars

\* C24 witness: an update of reminder 1 that passed a date and no note
\* has just returned it, with its note kept, while the reminder created
\* after it is stored unchanged.
C24_Witness ==
    /\ db_result = Ok([id |-> 1, note |-> "Testing", remind_at |-> 1,
                       created_at |-> Today])
    /\ StoredIds(reminders_table) = {1, 2}
    /\ fetch_reminders(reminders_table, <<>>) =
           << [id |-> 1, note |-> "Testing", remind_at |-> 1,
               created_at |-> Today],
              [id |-> 2, note |-> "Testing a new", remind_at |-> 0,
               created_at |-> Today] >>

\* a List view just made by View::List.into() and initialised once, in a
\* box other than the one the view before it was in
FreshListView ==
    /\ current_view'.kind = "List"
    /\ current_view'.inits = 1
    /\ current_view'.box # current_view.box

\* C28: the daemon is notified only of changes that were persisted:
\* RemindersApp sends ReminderCreated (resp. ReminderDeleted) only after
\* create_reminder (resp. delete_reminder) returned Ok, never when it
\* returned an error; after a CreateReminder message the current view is
\* always reset to a freshly initialised List view whether or not the create
\* succeeded, and after a failed delete the current view is neither
\* replaced nor re-initialised.
C28_NotifiedOnlyOfPersisted ==
    [][\A m \in Messages, ok \in BOOLEAN :
           Render(m, ok, Today) =>
               /\ server_msg' # None =>
                      /\ is_ok(db_result')
                      /\ server_msg'[1] = "ReminderCreated" =>
                             /\ m[1] = "CreateReminder"
                             /\ fetch_reminder(reminders_table',
                                    server_msg'[2].id).reminder
                                    = server_msg'[2]
                      /\ server_msg'[1] = "ReminderDeleted" =>
                             /\ m = DeleteReminder(server_msg'[2])
                             /\ server_msg'[2] \notin
                                    StoredIds(reminders_table')
               /\ ~ok /\ m[1] # "ChangeView" =>
                      /\ db_result' = Err
                      /\ server_msg' = None
                      /\ reminders_table' = reminders_table
               /\ m[1] = "CreateReminder" => FreshListView
               /\ m[1] = "DeleteReminder" /\ ~ok =>
                      current_view' = current_view
      ]_vars

\* C28 witness: a second reminder has been created from the Create view;
\* it is stored, the daemon has been told of it, and the view is a new
\* List view.
C28_Witness ==
    /\ server_msg # None
    /\ server_msg[1] = "ReminderCreated"
    /\ server_msg[2].id = 2
    /\ db_result = Ok(server_msg[2])
    /\ StoredIds(reminders_table) = {1, 2}
    /\ current_view.kind = "List"
    /\ current_view.inits = 1

====
